---- MODULE Spec2Model ----
(***************************************************************************)
(* Model of get_geoID (src/data/contact.py): the per-record resolution     *)
(* loop, its fallback chain of Nominatim queries, the cache-or-fetch       *)
(* collaborator and the cancellation flag; and of the progress signals of  *)
(* list_vcf_in_directory and cleanup_contact.                              *)
(*                                                                         *)
(* Text is modelled as a sequence of one-character strings, so that the    *)
(* string operations of the code (split, strip, lower, re.sub, urlencode)  *)
(* are computed as the code computes them.                                 *)
(***************************************************************************)
EXTENDS Integers, Sequences, FiniteSets, TLC

(***************************************************************************)
(* Bounds of the model.                                                    *)
(***************************************************************************)
\* Largest number of rows of the data frame handed to get_geoID.
MaxRecords == 2

\* Largest number of fetches of one call that the service leaves unanswered.
MaxOutages == 1

\* Largest number of characters of an address text to normalize.
MaxRawLen == 5

(***************************************************************************)
(* Characters.                                                             *)
(***************************************************************************)
\* The characters [A-Z] of the tag pattern of line 221.
UpperChars == {"H", "W"}

\* \s of the regular expressions and the default argument of str.strip().
WhiteChars == {" ", "\t", "\n", "\r"}

\* The characters "." of a regular expression does not match.
LineBreaks == {"\n"}

\* The class [\-\[\]\{\}] of line 184.
Separators == {"-", "[", "]", "{", "}"}

\* The class [\n\r] of line 185.
NewLines == {"\n", "\r"}

\* The argument of elem.strip(" \n\r.;,:") at line 226.
StripChars == {" ", "\n", "\r", ".", ";", ",", ":"}

\* str.lower() on one character (line 226).
LowerChar(c) ==
  CASE c = "H" -> "h"
    [] c = "W" -> "w"
    [] OTHER -> c

(***************************************************************************)
(* Generic helpers on sequences of characters.                             *)
(***************************************************************************)
\* s[a..b], the empty sequence when a > b (Python's slice).
Slice(s, a, b) ==
  IF a > b THEN << >> ELSE SubSeq(s, a, b)

\* str.strip(chars): index of the first character not in chars.
RECURSIVE FirstKept(_, _, _)
FirstKept(s, chars, i) ==
  IF i > Len(s) THEN i
  ELSE IF s[i] \in chars THEN FirstKept(s, chars, i + 1)
  ELSE i

\* str.strip(chars): index of the last character not in chars.
RECURSIVE LastKept(_, _, _)
LastKept(s, chars, i) ==
  IF i < 1 THEN i
  ELSE IF s[i] \in chars THEN LastKept(s, chars, i - 1)
  ELSE i

\* str.strip(chars): s without its leading and trailing characters of chars.
Strip(s, chars) ==
  Slice(s, FirstKept(s, chars, 1), LastKept(s, chars, Len(s)))

\* str.lower().
Lower(s) ==
  [i \in 1..Len(s) |-> LowerChar(s[i])]

\* str.split(sep) for a one-character separator: the pieces, empty ones kept.
RECURSIVE SplitFrom(_, _, _, _)
SplitFrom(s, sep, i, cur) ==
  IF i > Len(s) THEN << cur >>
  ELSE IF s[i] = sep THEN << cur >> \o SplitFrom(s, sep, i + 1, << >>)
  ELSE SplitFrom(s, sep, i + 1, Append(cur, s[i]))

SplitOn(s, sep) ==
  SplitFrom(s, sep, 1, << >>)

(***************************************************************************)
(* Lines 220-229: the segments of one address and their clean-up.          *)
(***************************************************************************)
\* Length of the match of [A-Z]+ starting at i (0 when s[i] is no capital).
RECURSIVE UpperRun(_, _)
UpperRun(s, i) ==
  IF i <= Len(s) /\ s[i] \in UpperChars THEN 1 + UpperRun(s, i + 1) ELSE 0

\* Length of the match of the pattern "[A-Z]+: " at position i, 0 if none.
TagLen(s, i) ==
  LET r == UpperRun(s, i)
  IN IF r > 0 /\ i + r + 1 <= Len(s) /\ s[i + r] = ":" /\ s[i + r + 1] = " "
     THEN r + 2
     ELSE 0

\* re.split(r"[A-Z]+: ", decoded): the pieces between the tags, empty ones
\* kept (a leading tag yields a leading empty piece).
RECURSIVE TagSplitFrom(_, _, _)
TagSplitFrom(s, i, cur) ==
  IF i > Len(s) THEN << cur >>
  ELSE IF TagLen(s, i) > 0
       THEN << cur >> \o TagSplitFrom(s, i + TagLen(s, i), << >>)
       ELSE TagSplitFrom(s, i + 1, Append(cur, s[i]))

TagSplit(decoded) ==
  TagSplitFrom(decoded, 1, << >>)

\* Length of one match of "\s?\," at position i, 0 if none.
CommaUnit(s, i) ==
  IF i + 1 <= Len(s) /\ s[i] \in WhiteChars /\ s[i + 1] = "," THEN 2
  ELSE IF i <= Len(s) /\ s[i] = "," THEN 1
  ELSE 0

\* Length of the match of "(\s?\,)+" at position i, 0 if none.
RECURSIVE CommaRun(_, _)
CommaRun(s, i) ==
  IF CommaUnit(s, i) = 0 THEN 0
  ELSE CommaUnit(s, i) + CommaRun(s, i + CommaUnit(s, i))

\* re.sub(r"(\s?\,)+", ",", elem): every run of commas, each with at most
\* one blank before it, becomes one comma.
RECURSIVE FactorizeFrom(_, _)
FactorizeFrom(s, i) ==
  IF i > Len(s) THEN << >>
  ELSE IF CommaRun(s, i) > 0
       THEN << "," >> \o FactorizeFrom(s, i + CommaRun(s, i))
       ELSE << s[i] >> \o FactorizeFrom(s, i + 1)

FactorizeCommas(s) ==
  FactorizeFrom(s, 1)

\* Lines 226-229: one piece of the split, stripped, lower-cased, its commas
\* factorized.
CleanElem(piece) ==
  FactorizeCommas(Lower(Strip(piece, StripChars)))

(***************************************************************************)
(* Lines 178-218: the location hint of a row and its decoding.             *)
(***************************************************************************)
\* Index of the last ")" of the line that holds position i, after i; 0 when
\* the line has none.  It is where the greedy ".*" of line 181 ends.
RECURSIVE LastClose(_, _, _)
LastClose(s, i, best) ==
  IF i > Len(s) \/ s[i] \in LineBreaks THEN best
  ELSE LastClose(s, i + 1, IF s[i] = ")" THEN i ELSE best)

\* Line 181: every stretch from a "(" to the last ")" of its line becomes
\* one blank.
RECURSIVE ParenthesesFrom(_, _)
ParenthesesFrom(s, i) ==
  IF i > Len(s) THEN << >>
  ELSE IF s[i] = "(" /\ LastClose(s, i + 1, 0) > 0
       THEN << " " >> \o ParenthesesFrom(s, LastClose(s, i + 1, 0) + 1)
       ELSE << s[i] >> \o ParenthesesFrom(s, i + 1)

\* Length of the run of characters of chars that starts at i.
RECURSIVE RunLen(_, _, _)
RunLen(s, chars, i) ==
  IF i <= Len(s) /\ s[i] \in chars THEN 1 + RunLen(s, chars, i + 1) ELSE 0

\* replace(to_replace="[chars]+", value=by, regex=True): every run of
\* characters of chars becomes by (lines 184, 185, 188).
RECURSIVE ReplaceRuns(_, _, _, _)
ReplaceRuns(s, chars, by, i) ==
  IF i > Len(s) THEN << >>
  ELSE IF s[i] \in chars
       THEN by \o ReplaceRuns(s, chars, by, i + RunLen(s, chars, i))
       ELSE << s[i] >> \o ReplaceRuns(s, chars, by, i + 1)

\* Line 188: the column with its runs of whitespace factorized.  The call
\* has no inplace=True: it returns this value and the column keeps its own.
FactorizedSpaces(s) ==
  ReplaceRuns(s, WhiteChars, << " " >>, 1)

\* Line 191: the match of "^\s*,\s*[^\S]" is removed: leading whitespace,
\* a comma, and the run of whitespace after it, of one character at least.
LeadingComma(s) ==
  LET c == 1 + RunLen(s, WhiteChars, 1)
      w == RunLen(s, WhiteChars, c + 1)
  IN IF c <= Len(s) /\ s[c] = "," /\ w >= 1
     THEN Slice(s, c + w + 1, Len(s))
     ELSE s

\* Lines 178-191: the column geohint of a row, from its column adr.
GeoHint(adr) ==
  LET parentheses == ParenthesesFrom(adr, 1)
      separators == ReplaceRuns(parentheses, Separators, << " " >>, 1)
      newlines == ReplaceRuns(separators, NewLines, << ",", " " >>, 1)
  IN LeadingComma(newlines)

\* unidecode.unidecode on one character (line 213): an ASCII character is
\* kept, an accented letter becomes its ASCII letter.
UnidecodeChar(c) ==
  CASE c = "e-acute" -> "e"
    [] OTHER -> c

\* str.replace(old, "") (lines 216-218): every occurrence of old, found from
\* left to right, is removed.
RECURSIVE Removed(_, _, _)
Removed(s, old, i) ==
  IF i > Len(s) THEN << >>
  ELSE IF i + Len(old) - 1 <= Len(s) /\ SubSeq(s, i, i + Len(old) - 1) = old
       THEN Removed(s, old, i + Len(old))
       ELSE << s[i] >> \o Removed(s, old, i + 1)

\* Lines 213-218: the hint decoded, then without its double quotes, its
\* "(c)" and its "@".
Decoded(geohint) ==
  LET unidecoded == [k \in 1..Len(geohint) |-> UnidecodeChar(geohint[k])]
      quotes == Removed(unidecoded, << "\"" >>, 1)
      copyright == Removed(quotes, << "(", "c", ")" >>, 1)
  IN Removed(copyright, << "@" >>, 1)

\* Lines 225-231: the non-empty cleaned pieces of a split, in order.
RECURSIVE Segments(_)
Segments(pieces) ==
  IF pieces = << >> THEN << >>
  ELSE IF Len(CleanElem(Head(pieces))) # 0
       THEN << CleanElem(Head(pieces)) >> \o Segments(Tail(pieces))
       ELSE Segments(Tail(pieces))

\* Lines 178-231: the segments get_geoID looks up for the address adr.
Normalize(adr) ==
  Segments(TagSplit(Decoded(GeoHint(adr))))

(***************************************************************************)
(* Lines 233-235: the query string handed to fetch_cache_or_web.           *)
(***************************************************************************)
\* urllib's quote_plus on one character: a blank becomes "+", letters and
\* "." stay, the rest is percent-encoded.
QuoteChar(c) ==
  CASE c = " " -> "+"
    [] c = "," -> "%2C"
    [] c = ":" -> "%3A"
    [] c = ";" -> "%3B"
    [] OTHER -> c

\* re.sub(r"[\+]+", "+", query): runs of "+" collapse to one.
RECURSIVE CollapsePlus(_)
CollapsePlus(s) ==
  IF Len(s) < 2 THEN s
  ELSE IF s[1] = "+" /\ s[2] = "+" THEN CollapsePlus(Tail(s))
  ELSE << s[1] >> \o CollapsePlus(Tail(s))

\* The encoded value of the parameter q.
EncodeText(text) ==
  CollapsePlus([i \in 1..Len(text) |-> QuoteChar(text[i])])

\* str(country_code) as urlencode writes it: None becomes the text "None".
NoCountry == "None"

\* Marks a query built without the countrycodes parameter (lines 233-234).
Unrestricted == "absent"

\* The query string "q=<text>[&countrycodes=<code>]&format=json" as the pair
\* of its two variable parts.  The final strip("+") removes nothing: the
\* string starts with "q=" and ends with "json".
EncodeQuery(text, countrycodes) ==
  [q |-> EncodeText(text), countrycodes |-> countrycodes]

(***************************************************************************)
(* Lines 260-267 and 284: the texts of the fallback queries.               *)
(***************************************************************************)
\* The loop of line 266: parts[-j] prepended for j = from .. upto.
RECURSIVE PrependParts(_, _, _, _)
PrependParts(parts, q, j, upto) ==
  IF j > upto THEN q
  ELSE PrependParts(parts,
                    Strip(parts[Len(parts) + 1 - j], WhiteChars) \o << "," >> \o q,
                    j + 1, upto)

\* Lines 263-267: the text of the sub-query of iteration i (0-based):
\* the last component, then the components -2 .. -(len - i - 1) before it.
WindowText(sub_elems, i) ==
  PrependParts(sub_elems,
               Strip(sub_elems[Len(sub_elems)], WhiteChars),
               2, Len(sub_elems) - i - 1)

\* Number of components the sub-query of iteration i is built from.
WindowSize(sub_elems, i) ==
  IF Len(sub_elems) - i - 1 >= 2 THEN Len(sub_elems) - i - 1 ELSE 1

\* Line 284: the first component alone.
FirstText(sub_elems) ==
  Strip(sub_elems[1], WhiteChars)

(***************************************************************************)
(* GeoSpellChecker.get_country_code_from_text (data/spellcheck.py), from   *)
(* its specification: the first token that names a country of the table    *)
(* gives the ISO code, and the text is returned without that token.        *)
(***************************************************************************)
\* The country-name table: one name, "france".
CountryName == << "f", "r", "a", "n", "c", "e" >>

\* The ISO code of CountryName.
CountryCode == "fr"

\* The characters that separate the tokens of an address.
TokenSeparators == {" ", ","}

\* Whether the token CountryName stands at position i of text.
CountryAt(text, i) ==
  /\ i + Len(CountryName) - 1 <= Len(text)
  /\ SubSeq(text, i, i + Len(CountryName) - 1) = CountryName
  /\ i = 1 \/ text[i - 1] \in TokenSeparators
  /\ \/ i + Len(CountryName) - 1 = Len(text)
     \/ text[i + Len(CountryName)] \in TokenSeparators

\* Position of the first country token of text, 0 if there is none.
CountryPos(text) ==
  IF \E i \in 1..Len(text) : CountryAt(text, i)
  THEN CHOOSE i \in 1..Len(text) :
         /\ CountryAt(text, i)
         /\ \A k \in 1..(i - 1) : ~CountryAt(text, k)
  ELSE 0

\* (country_code, filtered): no match gives no code and the text unchanged;
\* a match gives the code and the text without the token, blanks trimmed.
get_country_code_from_text(text) ==
  LET p == CountryPos(text)
  IN IF p = 0
     THEN [country_code |-> NoCountry, filtered |-> text]
     ELSE [country_code |-> CountryCode,
           filtered |-> Strip(Slice(text, 1, p - 1)
                              \o Slice(text, p + Len(CountryName), Len(text)),
                              WhiteChars)]

(***************************************************************************)
(* Nominatim.fetch_cache_or_web (data/nominatim.py), from its              *)
(* specification: a hit returns the stored results without any network     *)
(* call; a miss makes one network fetch and, when the service answers,     *)
(* one write of the answer (an empty list included).                       *)
(***************************************************************************)
\* The top result the service holds for a query.
Place(query) ==
  [place |-> query]

\* The cache with the answer to query stored.
CachePut(c, query, results) ==
  [k \in DOMAIN c \cup {query} |-> IF k = query THEN results ELSE c[k]]

\* The answers the service can give to one fetch: a non-empty list, an empty
\* list (NoResults), or no answer at all (ServiceUnavailable).
WebAnswers(c, query) ==
  { [cache |-> CachePut(c, query, << Place(query) >>),
     results |-> << Place(query) >>, raised |-> FALSE, web |-> TRUE],
    [cache |-> CachePut(c, query, << >>),
     results |-> << >>, raised |-> FALSE, web |-> TRUE],
    [cache |-> c, results |-> << >>, raised |-> TRUE, web |-> TRUE] }

\* The possible outcomes of fetch_cache_or_web(query) on cache c.
fetch_cache_or_web(c, query) ==
  IF query \in DOMAIN c
  THEN { [cache |-> c, results |-> c[query], raised |-> FALSE, web |-> FALSE] }
  ELSE WebAnswers(c, query)

(***************************************************************************)
(* The inputs of get_geoID.                                                *)
(***************************************************************************)
\* The address texts the column adr of a row may hold.
Addresses ==
  { << >>,
    << "a" >>,
    << "a", ",", " ", "b" >>,
    << "H", ":", " ", "a", " ", "W", ":", " ", "b" >>,
    << "b", ",", " ", "f", "r", "a", "n", "c", "e" >> }

\* The data frames: at most MaxRecords rows.
DataFrames ==
  UNION { [1..n -> Addresses] : n \in 0..MaxRecords }

\* A cache no run has written yet.
EmptyCache ==
  [k \in {} |-> << >>]

\* The caches found when get_geoID starts: empty, or left by earlier runs.
StartCaches ==
  { EmptyCache,
    CachePut(CachePut(EmptyCache,
                      EncodeQuery(<< "a" >>, Unrestricted),
                      << Place(EncodeQuery(<< "a" >>, Unrestricted)) >>),
             EncodeQuery(<< "b" >>, Unrestricted), << >>) }

(***************************************************************************)
(* The state of one call of get_geoID, of list_vcf_in_directory or of      *)
(* cleanup_contact.                                                        *)
(***************************************************************************)
VARIABLES
  data,           \* the rows: data[r] is the column adr of row r - 1
  progress,       \* whether a progress signal was passed (progress is not None)
  killswitch,     \* "None" (not passed), "unset" or "set"
  cache,          \* the Nominatim cache: encoded query -> stored results
  pc,             \* the position of get_geoID in its code
  index,          \* the loop variable of line 200; -1 while it is unbound
  split,          \* line 221: the pieces of the current address
  seg,            \* position in split of the loop of line 225
  elem,           \* line 229: the current piece, cleaned
  result,         \* line 210: the results of the current row
  flag_accurate,  \* line 223
  country_code,   \* line 248
  filtered,       \* line 248
  sub_elems,      \* line 260
  found,          \* line 261
  i,              \* the loop variable of line 262
  geoID,          \* the column geoID: row -> cell
  exactlocation,  \* the column exactlocation: row -> "NaN", "True", "False"
  probe,          \* outcome of the request of line 160
  tried,          \* history: the lookups made for the current piece
  origin,         \* history: the piece each entry of result came from
  rowlog,         \* history: the non-empty pieces of the current row so far
  stats,          \* history: per row, counts taken when its cells were written
  lookups,        \* history: per row, the number of calls of fetch_cache_or_web
  cancelled_at,   \* history: the row at which the killswitch was found set
  netcalls,       \* history: network fetches made during this call
  outages,        \* history: fetches of this call the service left unanswered
  entry_cache,    \* history: the cache as this call found it
  call,           \* 1 for the first call on the rows, 2 for the second
  previous,       \* what the first call returned, once it has
  emitted,        \* the tuples handed to progress.emit, in order
  all_files,      \* line 40: the names os.listdir returned
  current_file,   \* line 42
  filepos,        \* position of the loop of line 45 in sorted(all_files)
  contacts,       \* line 39: the files parsed so far
  raw,            \* an address text to normalize
  once,           \* the segments of raw
  twice           \* the segments of the first segment of raw

directory == << all_files, current_file, filepos, contacts >>

texts == << raw, once, twice >>

\* What no step of get_geoID changes: its arguments, and the state of the
\* other functions.
inputs == << data, progress, directory, texts >>

locals == << split, seg, elem, result, flag_accurate, country_code, filtered,
             sub_elems, found, i, rowlog, origin >>

columns == << geoID, exactlocation, stats >>

network == << cache, netcalls, outages, lookups, tried >>

calls == << call, previous, entry_cache >>

\* The state only get_geoID reads and writes.
geo == << data, cache, index, locals, columns, probe, network, cancelled_at,
         calls >>

vars == << data, progress, killswitch, cache, pc, index, split, seg, elem,
           result, flag_accurate, country_code, filtered, sub_elems, found, i,
           geoID, exactlocation, probe, tried, origin, rowlog, stats, lookups,
           cancelled_at, netcalls, outages, entry_cache, call, previous,
           emitted, all_files, current_file, filepos, contacts, raw, once,
           twice >>

\* Line 152.
entries == Len(data)

\* The rows as the code numbers them.
Rows == 0..(entries - 1)

\* A cell no assignment has written.
NaN == [kind |-> "NaN", results |-> << >>]

\* The statistics of a row whose cells are not written.
NoStats == [written |-> 0, pieces |-> 0, exact |-> 0, resolved |-> 0]

\* The count of the pieces of a row before its first piece.
NoPieces == [pieces |-> 0, exact |-> 0]

\* What is known of an earlier call before there was one.
NoPrevious ==
  [returned |-> FALSE, geoID |-> << >>, exactlocation |-> << >>,
   netcalls |-> 0, outages |-> 0, cancelled_at |-> -1]

\* if progress is not None: progress.emit(args), at the given line: the
\* tuples emitted so far, with this one when there is a progress signal.
Emitted(log, line, args) ==
  IF progress THEN Append(log, [line |-> line, args |-> args]) ELSE log

\* The last argument of the tuples get_geoID emits.
FetchStage == "Fetch geolocation data"

\* The label of lines 155 and 202 (its last character, an ellipsis, is
\* written as three dots).
Downloading == "Downloading GPS coordinates from nominatim.org..."

\* The label of line 163.
Unreachable ==
  "nominatim.org can't be reached, geolocation will use the local cache if possible"

\* Line 155.
EntrySignal ==
  << 0, 0, entries, Downloading, FetchStage >>

\* Line 163.
UnreachableSignal ==
  << 0, 0, entries, Unreachable, FetchStage >>

\* Line 202 with the number of the row after this one, as a counter
\* incremented before the signal would give it.
RowSignalNext(ix) ==
  << ix + 1, 0, entries, Downloading, FetchStage >>

\* Line 202.
RowSignal(ix) ==
  << ix, 0, entries, Downloading, FetchStage >>

\* Line 207.
CancelSignal(ix) ==
  << ix, 0, ix, "cancel", FetchStage >>

\* Line 301.
FinalSignal ==
  << index, entries, entries, "cancel", FetchStage >>

\* The local variables of get_geoID when it is entered.
Entered ==
  /\ entry_cache = cache
  /\ call = 1
  /\ previous = NoPrevious
  /\ index = -1
  /\ split = << >>
  /\ seg = 1
  /\ elem = << >>
  /\ result = << >>
  /\ flag_accurate = FALSE
  /\ country_code = NoCountry
  /\ filtered = << >>
  /\ sub_elems = << >>
  /\ found = FALSE
  /\ i = 0
  /\ rowlog = NoPieces
  /\ origin = << >>
  /\ geoID = [r \in Rows |-> NaN]
  /\ exactlocation = [r \in Rows |-> "NaN"]
  /\ probe = "pending"
  /\ tried = << >>
  /\ stats = [r \in Rows |-> NoStats]
  /\ lookups = [r \in Rows |-> 0]
  /\ cancelled_at = -1
  /\ netcalls = 0
  /\ outages = 0

\* No directory is being listed.
NoDirectory ==
  /\ all_files = << >>
  /\ current_file = 0
  /\ filepos = 1
  /\ contacts = << >>

\* No text is being normalized.
NoText ==
  /\ raw = << >>
  /\ once = << >>
  /\ twice = << >>

\* The state in which get_geoID is entered (lines 146-155).
Init ==
  /\ data \in DataFrames
  /\ progress \in BOOLEAN
  /\ killswitch \in {"None", "unset"}
  /\ cache \in StartCaches
  /\ Entered
  /\ pc = "probe"
  /\ emitted = Emitted(<< >>, 155, EntrySignal)
  /\ NoDirectory
  /\ NoText

(***************************************************************************)
(* The steps of get_geoID.                                                 *)
(***************************************************************************)
\* Lines 157-163: the request that tells whether the service can be reached.
\* Its outcome is reported to the progress signal and kept nowhere.
Probe ==
  /\ pc = "probe"
  /\ probe' \in {"ok", "failed"}
  /\ emitted' = IF probe' = "failed"
                THEN Emitted(emitted, 163, UnreachableSignal)
                ELSE emitted
  /\ pc' = "loop"
  /\ UNCHANGED << inputs, killswitch, index, locals, columns, network,
                  cancelled_at, calls >>

\* Line 205: the test of the killswitch.
KillswitchSet ==
  killswitch = "set"

\* Lines 210-223: the work on a row begins.
StartRow ==
  /\ result' = << >>
  /\ origin' = << >>
  /\ split' = TagSplit(Decoded(GeoHint(data[index + 2])))
  /\ flag_accurate' = FALSE
  /\ seg' = 1
  /\ rowlog' = NoPieces
  /\ pc' = "elem"
  /\ UNCHANGED << elem, country_code, filtered, sub_elems, found, i >>

\* Lines 205-208 with the killswitch set, as the code would run without the
\* break of line 208: the row is worked on all the same.
BreakMissing ==
  /\ cancelled_at' = index + 1
  /\ StartRow

\* Lines 205-208 with the killswitch set: the loop over the rows is left.
Break ==
  /\ cancelled_at' = index + 1
  /\ pc' = "final"
  /\ UNCHANGED locals

\* Lines 200-223: the head of the loop over the rows.  The loop ends after
\* the last row; it is left by break when the killswitch is set; otherwise
\* the work on the next row begins.
NextRow ==
  /\ pc = "loop"
  /\ IF index + 1 >= entries
     THEN /\ pc' = "final"
          /\ UNCHANGED << index, locals, cancelled_at, emitted >>
     ELSE /\ index' = index + 1
          /\ LET noticed == Emitted(emitted, 202, RowSignal(index'))
             IN IF KillswitchSet
                THEN /\ Break
                     /\ emitted' = Emitted(noticed, 207, CancelSignal(index'))
                ELSE /\ StartRow
                     /\ emitted' = noticed
                     /\ UNCHANGED cancelled_at
  /\ UNCHANGED << inputs, killswitch, columns, probe, network, calls >>

\* Line 225 leaving the loop also when the killswitch is set, as the code
\* would run if it polled the killswitch between the pieces of a row.
PiecesOverOrKilled ==
  seg > Len(split) \/ killswitch = "set"

\* Line 225: the loop over the pieces has no piece left.
PiecesOver ==
  seg > Len(split)

\* Line 231 without its test: every piece is looked up.
AnyElem(e) ==
  TRUE

\* Line 231: if len(str(elem)) != 0.
NonEmptyElem(e) ==
  Len(e) # 0

\* Lines 225-231: the head of the loop over the pieces.  An empty piece is
\* skipped; after the last piece the cells of the row are written.
NextElem ==
  /\ pc = "elem"
  /\ tried' = << >>
  /\ IF PiecesOver
     THEN /\ pc' = "write"
          /\ UNCHANGED << seg, elem >>
     ELSE /\ elem' = CleanElem(split[seg])
          /\ IF NonEmptyElem(elem')
             THEN /\ pc' = "exact"
                  /\ UNCHANGED seg
             ELSE /\ pc' = "elem"
                  /\ seg' = seg + 1
  /\ UNCHANGED << inputs, killswitch, cache, index, split, result,
                  flag_accurate, country_code, filtered, sub_elems, found, i,
                  rowlog, origin, columns, probe, lookups, cancelled_at,
                  netcalls, outages, calls,
                  emitted >>

\* The call of the cache bypassed: every lookup goes to the service.
LookupWeb(query) ==
  { o \in WebAnswers(cache, query) : o.raised => outages < MaxOutages }

\* The call nominatim.fetch_cache_or_web(query) of lines 236, 255, 274, 288.
Lookup(query) ==
  { o \in fetch_cache_or_web(cache, query) : o.raised => outages < MaxOutages }

\* The subscript [0] of lines 236, 255, 274, 288 raises on an empty list, as
\* the call itself raises when the service gives no answer.
Succeeded(o) ==
  ~o.raised /\ Len(o.results) > 0

\* What a lookup leaves behind, whatever its outcome: the cache as the call
\* left it, and the history of the lookup.
Looked(kind, size, query, o) ==
  /\ cache' = o.cache
  /\ tried' = Append(tried, [cand |-> kind, size |-> size, query |-> query,
                             web |-> o.web, raised |-> o.raised,
                             ok |-> Succeeded(o)])
  /\ lookups' = [lookups EXCEPT ![index] = @ + 1]
  /\ netcalls' = netcalls + (IF o.web THEN 1 ELSE 0)
  /\ outages' = outages + (IF o.raised THEN 1 ELSE 0)
  /\ rowlog' = IF kind = "exact"
               THEN [pieces |-> rowlog.pieces + 1,
                     exact |-> rowlog.exact + (IF Succeeded(o) THEN 1 ELSE 0)]
               ELSE rowlog

\* Lines 237, 256, 275, 289: result.append(out).
Appended(o) ==
  /\ result' = Append(result, o.results[1])
  /\ origin' = Append(origin, seg)

\* Lines 233-235: the first query, the piece as it is, no country.
ExactQuery ==
  EncodeQuery(elem, Unrestricted)

\* Line 240 moved before the lookup of line 236: the flag is set whatever
\* the first query gives.
AccurateBefore(o) ==
  TRUE

\* Line 240: flag_accurate = True, reached when line 236 did not raise.
AccurateAfter(o) ==
  flag_accurate \/ Succeeded(o)

\* Lines 232-248: the first query.  Its success marks the row as accurate;
\* on failure the country is looked for in the piece.
TryExact ==
  /\ pc = "exact"
  /\ \E o \in Lookup(ExactQuery) :
       /\ Looked("exact", Len(SplitOn(elem, ",")), ExactQuery, o)
       /\ flag_accurate' = AccurateAfter(o)
       /\ IF Succeeded(o)
          THEN /\ Appended(o)
               /\ seg' = seg + 1
               /\ pc' = "elem"
               /\ UNCHANGED << country_code, filtered >>
          ELSE /\ country_code' = get_country_code_from_text(elem).country_code
               /\ filtered' = get_country_code_from_text(elem).filtered
               /\ pc' = "country"
               /\ UNCHANGED << result, origin, seg >>
  /\ UNCHANGED << inputs, killswitch, index, split, elem, sub_elems, found, i,
                  columns, probe, cancelled_at, calls,
                  emitted >>

\* Lines 251-254: the piece without its country, restricted to the code.
CountryQuery ==
  EncodeQuery(filtered, country_code)

\* Lines 250-261: the second query; on failure the text is cut at its commas.
TryCountry ==
  /\ pc = "country"
  /\ \E o \in Lookup(CountryQuery) :
       /\ Looked("country", Len(SplitOn(filtered, ",")), CountryQuery, o)
       /\ IF Succeeded(o)
          THEN /\ Appended(o)
               /\ seg' = seg + 1
               /\ pc' = "elem"
               /\ UNCHANGED << sub_elems, found, i >>
          ELSE /\ sub_elems' = SplitOn(filtered, ",")
               /\ found' = FALSE
               /\ i' = 0
               /\ pc' = "window"
               /\ UNCHANGED << result, origin, seg >>
  /\ UNCHANGED << inputs, killswitch, index, split, elem, flag_accurate,
                  country_code, filtered, columns, probe, cancelled_at, calls,
                  emitted >>

\* Line 262: range(0, len(sub_elems) - 1, 1) still has the value i.
WindowsLeft ==
  i < Len(sub_elems) - 1

\* Lines 270-273: the sub-query of iteration i, restricted to the code.
WindowQuery ==
  EncodeQuery(WindowText(sub_elems, i), country_code)

\* Line 276 left out: found keeps its value.
FoundForgotten ==
  found

\* Line 276: found = True.
FoundSet ==
  TRUE

\* Lines 262-279: one iteration of the loop over the sub-queries; a result
\* ends the loop (break), a failure goes on to the next iteration.
TryWindow ==
  /\ pc = "window"
  /\ WindowsLeft
  /\ \E o \in Lookup(WindowQuery) :
       /\ Looked("window", WindowSize(sub_elems, i), WindowQuery, o)
       /\ IF Succeeded(o)
          THEN /\ Appended(o)
               /\ found' = FoundSet
               /\ pc' = "after"
               /\ UNCHANGED i
          ELSE /\ i' = i + 1
               /\ pc' = "window"
               /\ UNCHANGED << result, origin, found >>
  /\ UNCHANGED << inputs, killswitch, index, split, seg, elem, flag_accurate,
                  country_code, filtered, sub_elems, columns, probe,
                  cancelled_at, calls,
                  emitted >>

\* The loop of line 262 is over: left by break, or out of iterations.
WindowsOver ==
  \/ pc = "after"
  \/ pc = "window" /\ ~WindowsLeft

\* Lines 284-287: the first component alone, restricted to the code.
FirstQuery ==
  EncodeQuery(FirstText(sub_elems), country_code)

\* Lines 281-293: the loop over the sub-queries gave no result, and the
\* first component is tried; after it the piece is given up.
TryFirst ==
  /\ WindowsOver
  /\ ~found
  /\ \E o \in Lookup(FirstQuery) :
       /\ Looked("first", 1, FirstQuery, o)
       /\ IF Succeeded(o)
          THEN Appended(o)
          ELSE UNCHANGED << result, origin >>
  /\ seg' = seg + 1
  /\ pc' = "elem"
  /\ UNCHANGED << inputs, killswitch, index, split, elem, flag_accurate,
                  country_code, filtered, sub_elems, found, i, columns, probe,
                  cancelled_at, calls,
                  emitted >>

\* Line 281 with found set: the piece is done.
SkipFirst ==
  /\ WindowsOver
  /\ found
  /\ seg' = seg + 1
  /\ pc' = "elem"
  /\ UNCHANGED << inputs, killswitch, index, split, elem, result,
                  flag_accurate, country_code, filtered, sub_elems, found, i,
                  rowlog, origin, columns, probe, network, cancelled_at,
                  calls,
                  emitted >>

\* Lines 294-297 without the else branch: an empty result writes nothing.
GeoIDCellNoElse(r) ==
  IF r # << >>
  THEN [kind |-> "json", results |-> r]
  ELSE NaN

\* Lines 294-297: the cell geoID of a row, json.dumps(result) or "not found".
GeoIDCell(r) ==
  IF r # << >>
  THEN [kind |-> "json", results |-> r]
  ELSE [kind |-> "not found", results |-> << >>]

\* Line 298: the cell exactlocation of a row.
ExactCell(flag) ==
  IF flag THEN "True" ELSE "False"

\* Lines 294-298: the two cells of the row are written.
WriteRow ==
  /\ pc = "write"
  /\ geoID' = [geoID EXCEPT ![index] = GeoIDCell(result)]
  /\ exactlocation' = [exactlocation EXCEPT ![index] = ExactCell(flag_accurate)]
  /\ stats' = [stats EXCEPT ![index] =
                 [written |-> @.written + 1, pieces |-> rowlog.pieces,
                  exact |-> rowlog.exact, resolved |-> Len(result)]]
  /\ pc' = "loop"
  /\ UNCHANGED << inputs, killswitch, index, locals, probe, network,
                  cancelled_at, calls,
                  emitted >>

\* Line 301 reads the loop variable, which no iteration has bound when the
\* data frame has no row.
IndexUnbound ==
  index = -1

\* Lines 300-303: the last progress report, and the return of the data.
Return ==
  /\ pc = "final"
  /\ pc' = IF progress /\ IndexUnbound THEN "raised" ELSE "returned"
  /\ emitted' = IF IndexUnbound
                THEN emitted
                ELSE Emitted(emitted, 301, FinalSignal)
  /\ UNCHANGED << inputs, killswitch, index, locals, columns, probe, network,
                  cancelled_at, calls >>

\* Another thread sets the killswitch while get_geoID runs.
SetKillswitch ==
  /\ killswitch = "unset"
  /\ pc \notin {"returned", "raised", "listed", "cleaned"}
  /\ killswitch' = "set"
  /\ UNCHANGED << inputs, pc, index, locals, columns, probe, network,
                  cancelled_at, calls,
                  emitted >>

\* The steps of get_geoID itself.
Run ==
  \/ Probe
  \/ NextRow
  \/ NextElem
  \/ TryExact
  \/ TryCountry
  \/ TryWindow
  \/ TryFirst
  \/ SkipFirst
  \/ WriteRow
  \/ Return

Next ==
  \/ Run
  \/ SetKillswitch

Spec ==
  Init /\ [][Next]_vars

(***************************************************************************)
(* Two calls in a row on the same rows, the second with the cache the      *)
(* first one left.                                                         *)
(***************************************************************************)
\* The caller calls get_geoID again on the same rows.
CallAgain ==
  /\ pc = "returned"
  /\ call = 1
  /\ call' = 2
  /\ previous' = [returned |-> TRUE, geoID |-> geoID,
                  exactlocation |-> exactlocation,
                  netcalls |-> netcalls, outages |-> outages,
                  cancelled_at |-> cancelled_at]
  /\ entry_cache' = cache
  /\ pc' = "probe"
  /\ index' = -1
  /\ split' = << >>
  /\ seg' = 1
  /\ elem' = << >>
  /\ result' = << >>
  /\ flag_accurate' = FALSE
  /\ country_code' = NoCountry
  /\ filtered' = << >>
  /\ sub_elems' = << >>
  /\ found' = FALSE
  /\ i' = 0
  /\ rowlog' = NoPieces
  /\ origin' = << >>
  /\ geoID' = [r \in Rows |-> NaN]
  /\ exactlocation' = [r \in Rows |-> "NaN"]
  /\ probe' = "pending"
  /\ tried' = << >>
  /\ stats' = [r \in Rows |-> NoStats]
  /\ lookups' = [r \in Rows |-> 0]
  /\ cancelled_at' = -1
  /\ netcalls' = 0
  /\ outages' = 0
  /\ emitted' = Emitted(<< >>, 155, EntrySignal)
  /\ UNCHANGED << inputs, killswitch, cache >>

\* The addresses whose queries overlap: a lookup made for one of them can
\* find what a lookup made for another one stored.
OverlappingAddresses ==
  { << "a" >>,
    << "a", ",", " ", "b" >>,
    << "H", ":", " ", "a", " ", "W", ":", " ", "b" >> }

\* The first call is made without progress signal.
InitTwice ==
  /\ Init
  /\ \A r \in 1..Len(data) : data[r] \in OverlappingAddresses
  /\ ~progress

NextTwice ==
  \/ Next
  \/ CallAgain

SpecTwice ==
  InitTwice /\ [][NextTwice]_vars

(***************************************************************************)
(* The calls of get_geoID that are handed neither a progress signal nor a  *)
(* killswitch: no other thread takes part.                                 *)
(***************************************************************************)
InitRows ==
  /\ Init
  /\ ~progress
  /\ killswitch = "None"

SpecRows ==
  InitRows /\ [][Run]_vars

(***************************************************************************)
(* The calls of get_geoID that are handed a killswitch.                    *)
(***************************************************************************)
InitCancel ==
  /\ Init
  /\ killswitch = "unset"

SpecCancel ==
  InitCancel /\ [][Next]_vars

(***************************************************************************)
(* list_vcf_in_directory (lines 33-88) and cleanup_contact (lines 91-143), *)
(* as far as their progress signals go: the content of the vCard files and *)
(* the cells of the data frame are left out.                               *)
(***************************************************************************)
\* The file names a directory may hold.
FileNames ==
  { << "a", ".", "v", "c", "f" >>,
    << "b", ".", "v", "c", "f" >>,
    << "a", ".", "t", "x", "t" >> }

\* What os.listdir may return (line 40): names of the directory, each once,
\* in any order.
Listings ==
  { l \in UNION { [1..n -> FileNames] : n \in 0..Cardinality(FileNames) } :
      \A j, k \in 1..Len(l) : j # k => l[j] # l[k] }

\* ord() of the characters of the file names.
Ord(c) ==
  CASE c = "." -> 46
    [] c = "a" -> 97
    [] c = "b" -> 98
    [] c = "c" -> 99
    [] c = "f" -> 102
    [] c = "t" -> 116
    [] c = "v" -> 118
    [] c = "x" -> 120

\* The order of sorted() on strings (line 45): s < t.
RECURSIVE Before(_, _)
Before(s, t) ==
  IF t = << >> THEN FALSE
  ELSE IF s = << >> THEN TRUE
  ELSE IF Ord(Head(s)) # Ord(Head(t)) THEN Ord(Head(s)) < Ord(Head(t))
  ELSE Before(Tail(s), Tail(t))

\* Line 58: file.endswith(suffix).
EndsWith(file, suffix) ==
  /\ Len(file) >= Len(suffix)
  /\ SubSeq(file, Len(file) - Len(suffix) + 1, Len(file)) = suffix

\* Line 41.
files_number == Len(all_files)

\* The last argument of the tuples list_vcf_in_directory emits.
ReadingStage == "Reading directory"

\* Line 49.
FileSignal ==
  << current_file, 0, files_number, "Parsing files", ReadingStage >>

\* Line 55, emitted after the counter of line 50 has become count.
FileCancelSignal(count) ==
  << count, 0, count, files_number, "cancel", ReadingStage >>

\* Line 83.
FilesDoneSignal ==
  << current_file, files_number, files_number, "Parsing files", ReadingStage >>

\* The state in which list_vcf_in_directory is entered (lines 33-42).
InitFiles ==
  /\ all_files \in Listings
  /\ current_file = 0
  /\ filepos = 1
  /\ contacts = << >>
  /\ progress \in BOOLEAN
  /\ killswitch \in {"None", "unset"}
  /\ emitted = << >>
  /\ pc = "files"
  /\ data = << >>
  /\ cache = EmptyCache
  /\ Entered
  /\ NoText

\* Lines 45-80: one turn of the loop over the sorted names.  The signal is
\* emitted and the counter incremented when there is a progress signal; the
\* loop is left when the killswitch is set; a .vcf file is parsed and added
\* to the contacts.
NextFile ==
  /\ pc = "files"
  /\ IF filepos > files_number
     THEN /\ pc' = "filesdone"
          /\ UNCHANGED << current_file, filepos, contacts, emitted >>
     ELSE /\ current_file' = IF progress THEN current_file + 1 ELSE current_file
          /\ LET file == SortSeq(all_files, Before)[filepos]
                 noticed == Emitted(emitted, 49, FileSignal)
             IN IF KillswitchSet
                THEN /\ emitted' =
                          Emitted(noticed, 55, FileCancelSignal(current_file'))
                     /\ pc' = "filesdone"
                     /\ UNCHANGED << filepos, contacts >>
                ELSE /\ emitted' = noticed
                     /\ contacts' = IF EndsWith(file, << ".", "v", "c", "f" >>)
                                    THEN Append(contacts, file)
                                    ELSE contacts
                     /\ filepos' = filepos + 1
                     /\ pc' = "files"
  /\ UNCHANGED << geo, progress, killswitch, all_files, texts >>

\* Lines 82-88: the last signal, and the return of the data frame.
FilesDone ==
  /\ pc = "filesdone"
  /\ emitted' = Emitted(emitted, 83, FilesDoneSignal)
  /\ pc' = "listed"
  /\ UNCHANGED << geo, progress, killswitch, directory, texts >>

\* The last argument of the tuples cleanup_contact emits.
PrepareStage == "Prepare data"

\* The state in which cleanup_contact is entered (line 91).
InitCleanup ==
  /\ progress \in BOOLEAN
  /\ killswitch \in {"None", "unset"}
  /\ emitted = << >>
  /\ pc = "cleanup"
  /\ data = << >>
  /\ cache = EmptyCache
  /\ Entered
  /\ NoDirectory
  /\ NoText

\* Lines 97-143: cleanup_contact, which never reads its killswitch: the
\* four signals of lines 98, 110, 123 and 141.
CleanupContact ==
  /\ pc = "cleanup"
  /\ emitted' =
       Emitted(
         Emitted(
           Emitted(
             Emitted(emitted,
                     98, << 0, 0, 3, "Formatting the database", PrepareStage >>),
             110, << 1, 0, 3, "Cleaning tags", PrepareStage >>),
           123, << 2, 0, 3, "Sorting data", PrepareStage >>),
         141, << 3, 0, 3, "Sorted", PrepareStage >>)
  /\ pc' = "cleaned"
  /\ UNCHANGED << geo, progress, killswitch, directory, texts >>

\* The calls of the three functions that emit progress signals; get_geoID
\* is handed a progress signal.
InitProgress ==
  \/ Init /\ progress
  \/ InitFiles
  \/ InitCleanup

NextProgress ==
  \/ Next
  \/ NextFile
  \/ FilesDone
  \/ CleanupContact

SpecProgress ==
  InitProgress /\ [][NextProgress]_vars

(***************************************************************************)
(* The normalization of one address text (lines 178-231), applied to the   *)
(* text and then to its first segment.                                     *)
(***************************************************************************)
\* The characters of the address texts to normalize.
RawChars ==
  {"a", " ", ",", "(", ")", "\n", "H", ":", "-", "e-acute", "@"}

\* The address texts to normalize.
RawTexts ==
  UNION { [1..n -> RawChars] : n \in 0..MaxRawLen }

InitNormalize ==
  /\ raw \in RawTexts
  /\ once = << >>
  /\ twice = << >>
  /\ pc = "raw"
  /\ data = << >>
  /\ progress = FALSE
  /\ killswitch = "None"
  /\ cache = EmptyCache
  /\ Entered
  /\ emitted = << >>
  /\ NoDirectory

\* Lines 178-231 on the address text.
NormalizeRaw ==
  /\ pc = "raw"
  /\ once' = Normalize(raw)
  /\ pc' = "once"
  /\ UNCHANGED << geo, progress, killswitch, emitted, directory, raw, twice >>

\* Lines 178-231 on the first segment of the address text.
NormalizeAgain ==
  /\ pc = "once"
  /\ once # << >>
  /\ twice' = Normalize(once[1])
  /\ pc' = "twice"
  /\ UNCHANGED << geo, progress, killswitch, emitted, directory, raw, once >>

NextNormalize ==
  \/ NormalizeRaw
  \/ NormalizeAgain

SpecNormalize ==
  InitNormalize /\ [][NextNormalize]_vars

(***************************************************************************)
(* Properties.                                                             *)
(***************************************************************************)
\* The rows whose cells have been written.
Written == { r \in Rows : stats[r].written > 0 }

\* The positions of the history of the current piece.
Tries == 1..Len(tried)

\* The distinct query strings looked up for the current piece.
QueriesTried == { tried[k].query : k \in Tries }

\* The place of a candidate in the order the fallback chain defines.
Rank(cand) ==
  CASE cand = "exact" -> 1
    [] cand = "country" -> 2
    [] cand = "window" -> 3
    [] cand = "first" -> 4

\* The candidates of the current piece were tried in the order of the chain:
\* the piece as it is, the residual with the country code, the sub-queries
\* from the longest to the shortest, the first component.
TriedInOrder ==
  /\ \A k \in Tries : (k = 1) <=> (tried[k].cand = "exact")
  /\ \A k \in Tries : (k = 2) <=> (tried[k].cand = "country")
  /\ \A j, k \in Tries :
       j < k =>
         /\ Rank(tried[j].cand) <= Rank(tried[k].cand)
         /\ Rank(tried[j].cand) = Rank(tried[k].cand) =>
              /\ tried[j].cand = "window"
              /\ tried[j].size > tried[k].size

\* C1: the cell exactlocation of a row is True only if the first query of
\* every non-empty piece of the row gave a result.
C1_ExactOnlyIfEveryFirstQuery ==
  \A r \in Written :
    exactlocation[r] = "True" => stats[r].exact = stats[r].pieces

\* C2: once the killswitch is found set before row k, exactly the rows
\* before k have their two cells written, once, and row k and the rows
\* after it have no cell written and no lookup made.
C2_CancelledBeforeRow ==
  cancelled_at # -1 =>
    \A r \in Rows :
      /\ r < cancelled_at =>
           /\ stats[r].written = 1
           /\ geoID[r] # NaN
           /\ exactlocation[r] # "NaN"
      /\ r >= cancelled_at =>
           /\ stats[r].written = 0
           /\ geoID[r] = NaN
           /\ exactlocation[r] = "NaN"
           /\ lookups[r] = 0

\* A call cancelled before its second row, after lookups for the first.
C2_Witness ==
  /\ pc = "returned"
  /\ entries = 2
  /\ cancelled_at = 1
  /\ lookups[0] > 0
  /\ geoID[0].kind = "json"
  /\ geoID[1] = NaN

\* C3: the rows are written in input order, each once; a call that is not
\* cancelled leaves every row written, whatever lookups failed; a row without
\* any result holds "not found" and exactlocation False.
C3_EveryRowOneOutcome ==
  /\ \A r \in Rows : stats[r].written <= 1
  /\ \A r \in Rows :
       r \in Written <=>
         \/ r < index
         \/ r = index /\ pc \in {"loop", "final", "returned"} /\ cancelled_at = -1
  /\ pc \in {"final", "returned", "raised"} /\ cancelled_at = -1 =>
       \A r \in Rows :
         /\ stats[r].written = 1
         /\ geoID[r] # NaN
         /\ exactlocation[r] # "NaN"
  /\ \A r \in Written :
       stats[r].resolved = 0 =>
         /\ geoID[r].kind = "not found"
         /\ exactlocation[r] = "False"

\* A call that returned with its first row unresolved after an unanswered
\* fetch, and its second row resolved.
C3_Witness ==
  /\ pc = "returned"
  /\ cancelled_at = -1
  /\ entries = 2
  /\ outages > 0
  /\ lookups[0] > 0
  /\ geoID[0].kind = "not found"
  /\ exactlocation[0] = "False"
  /\ geoID[1].kind = "json"

\* C4: for a piece whose residual text has n components, at most
\* 2 + (n - 1) distinct queries are looked up, in the order of the chain.
C4_AtMostNPlusOneQueries ==
  tried # << >> =>
    /\ Cardinality(QueriesTried)
         <= 2 + (Len(SplitOn(get_country_code_from_text(elem).filtered, ",")) - 1)
    /\ TriedInOrder

\* C5: no two lookups made for the same piece carry the same query string.
C5_NoQueryRepeated ==
  \A j, k \in Tries : j < k => tried[j].query # tried[k].query

C7_CacheOnlyAfterFailedProbe ==
  probe = "failed" =>
    /\ netcalls = 0
    /\ \A k \in Tries : ~tried[k].web

\* C8: with the probe failed and the cache empty at entry, the call raises
\* nothing and every row written holds "not found" and exactlocation False.
C8_UnreachableAndEmptyCache ==
  probe = "failed" /\ entry_cache = EmptyCache =>
    /\ pc # "raised"
    /\ \A r \in Written :
         /\ geoID[r].kind = "not found"
         /\ exactlocation[r] = "False"

\* C9: the candidates of a piece are tried in the order of the chain and
\* none after one that gave a result; that result is the one appended; a row
\* holds at most one result per non-empty piece, in the order of the pieces.
C9_FirstResultWins ==
  /\ \A k \in Tries : tried[k].ok => k = Len(tried)
  /\ TriedInOrder
  /\ tried # << >> /\ tried[Len(tried)].ok =>
       /\ result # << >>
       /\ result[Len(result)] = Place(tried[Len(tried)].query)
  /\ Len(result) <= rowlog.pieces
  /\ Len(origin) = Len(result)
  /\ \A j, k \in 1..Len(origin) : j < k => origin[j] < origin[k]

\* A row of two pieces, both resolved, the second one by its second
\* candidate after the first one failed.
C9_Witness ==
  /\ pc = "elem"
  /\ Len(result) = 2
  /\ origin[1] < origin[2]
  /\ Len(tried) = 2
  /\ ~tried[1].ok
  /\ tried[2].ok

\* C10: the query restricted by countrycodes is looked up as second
\* candidate only if a country code was found in the piece.
C10_CountryQueryOnlyWithCode ==
  get_country_code_from_text(elem).country_code = NoCountry =>
    \A k \in Tries : tried[k].cand # "country"

\* C11: normalizing the first segment of a normalized address text yields
\* that segment again.
C11_NormalizeIdempotent ==
  pc = "twice" =>
    /\ twice # << >>
    /\ twice[1] = once[1]

\* The last m components of parts, each without the blanks around it,
\* joined by commas: the contiguous suffix of m components.
RECURSIVE SuffixJoin(_, _)
SuffixJoin(parts, m) ==
  IF m = 1 THEN Strip(parts[Len(parts)], WhiteChars)
  ELSE Strip(parts[Len(parts) + 1 - m], WhiteChars) \o << "," >>
         \o SuffixJoin(parts, m - 1)

\* C12: every sub-query of the current piece is a contiguous suffix of the
\* components of the residual text, restricted by the country code; each
\* sub-query has one component less than the one tried before it, and none
\* has fewer than 2 components.
C12_WindowsAreSuffixesOfTwoOrMore ==
  \A k \in Tries :
    tried[k].cand = "window" =>
      /\ tried[k].size \in 1..Len(sub_elems)
      /\ tried[k].query = EncodeQuery(SuffixJoin(sub_elems, tried[k].size),
                                      country_code)
      /\ k > 1 /\ tried[k - 1].cand = "window" =>
           tried[k].size = tried[k - 1].size - 1
      /\ tried[k].size >= 2

\* The positions of get_geoID between the head of the loop over the rows
\* and the writing of the cells of the row.
InRow == {"elem", "exact", "country", "window", "after", "write"}

\* The chain of the piece just left came to its end: by a result, or with
\* its last candidate.
ChainEnded ==
  pc = "elem" /\ tried # << >> =>
    \/ tried[Len(tried)].ok
    \/ tried[Len(tried)].cand = "first"

\* Every row is written, or untouched by any lookup, or the row being
\* worked on; and the cells of a row are written when every piece of its
\* address has been gone through and every non-empty one looked up.
WholeOrUntouched ==
  /\ \A r \in Rows :
       \/ r \in Written
       \/ r \notin Written /\ lookups[r] = 0
       \/ r \notin Written /\ r = index /\ pc \in InRow
  /\ pc = "write" =>
       /\ seg > Len(split)
       /\ rowlog.pieces = Len(Segments(split))

\* With the killswitch set, a step taken inside a row stays with the row
\* until its cells are written, and the head of the loop starts no row.
StopsAtRowBoundary ==
  killswitch = "set" =>
    /\ pc \in InRow =>
         /\ index' = index
         /\ pc' \in InRow \union {"loop"}
         /\ pc' = "loop" => stats'[index].written = 1
    /\ pc = "loop" =>
         /\ pc' = "final"
         /\ lookups' = lookups
         /\ stats' = stats

\* C13: the killswitch is polled between the rows only: once it is set
\* during the work on a row, every piece of that row runs its chain to the
\* end and the cells of the row are written, and no later row is started;
\* every row is processed whole or not at all.
C13_CancelledOnlyBetweenRows ==
  /\ [](ChainEnded /\ WholeOrUntouched)
  /\ [][StopsAtRowBoundary]_vars

\* The killswitch was set during the work on the first of two rows, and
\* both pieces of that row were looked up all the same.
C13_Witness ==
  /\ killswitch = "set"
  /\ pc = "write"
  /\ entries = 2
  /\ index = 0
  /\ Len(Segments(split)) = 2
  /\ rowlog.pieces = 2

\* The positions of the tuples emitted.
Signals == 1..Len(emitted)

\* The tuples get_geoID emitted at the head of its loop over the rows.
RowSignals == { k \in Signals : emitted[k].line = 202 }

\* C14: with a progress signal, every row whose work has begun, and so
\* every row a lookup was made for, has had its tuple (index, 0, entries,
\* label, stage) emitted at the head of the loop, and the indices of these
\* tuples increase strictly in the order of emission.
C14_RowSignalledBeforeLookups ==
  progress =>
    /\ \A r \in Rows :
         r <= index \/ lookups[r] > 0 =>
           \E k \in RowSignals :
             /\ Len(emitted[k].args) = 5
             /\ emitted[k].args[1] = r
             /\ emitted[k].args[2] = 0
             /\ emitted[k].args[3] = entries
    /\ \A j, k \in RowSignals :
         j < k => emitted[j].args[1] < emitted[k].args[1]

\* A call with a progress signal that returned after lookups for each of
\* its two rows.
C14_Witness ==
  /\ progress
  /\ pc = "returned"
  /\ entries = 2
  /\ lookups[0] > 0
  /\ lookups[1] > 0
  /\ Cardinality(RowSignals) = 2

\* C15: every tuple emitted by list_vcf_in_directory, cleanup_contact and
\* get_geoID has five fields: three numbers, the range minimum not above
\* the range maximum, then two labels.
C15_SignalsAreFiveTuples ==
  \A k \in Signals :
    /\ Len(emitted[k].args) = 5
    /\ emitted[k].args[1] \in Nat
    /\ emitted[k].args[2] \in Nat
    /\ emitted[k].args[3] \in Nat
    /\ emitted[k].args[2] <= emitted[k].args[3]
    /\ emitted[k].args[4] \in STRING
    /\ emitted[k].args[5] \in STRING

\* C16: no lookup is made for a piece that is empty once cleaned; a row
\* whose pieces are all empty is written "not found" and exactlocation
\* False without any lookup, and the call goes on to the rows after it.
C16_EmptyPieceNoLookup ==
  /\ tried # << >> => elem # << >>
  /\ pc \in {"exact", "country", "window", "after"} => elem # << >>
  /\ pc = "write" /\ Segments(split) = << >> =>
       /\ lookups[index] = 0
       /\ result = << >>
       /\ ~flag_accurate
  /\ \A r \in Written :
       lookups[r] = 0 =>
         /\ geoID[r].kind = "not found"
         /\ exactlocation[r] = "False"
  /\ pc = "returned" /\ cancelled_at = -1 => Written = Rows

\* A call that returned with its first row, of empty address, written
\* "not found" without any lookup, and its second row resolved.
C16_Witness ==
  /\ pc = "returned"
  /\ entries = 2
  /\ Normalize(data[1]) = << >>
  /\ lookups[0] = 0
  /\ geoID[0].kind = "not found"
  /\ exactlocation[0] = "False"
  /\ geoID[1].kind = "json"

\* C17: a call on a data frame without rows raises nothing, and with a
\* progress signal it returns after the tuple of line 301.
C17_NoRowsReturns ==
  entries = 0 =>
    /\ pc # "raised"
    /\ pc = "returned" /\ progress =>
         /\ emitted # << >>
         /\ emitted[Len(emitted)].line = 301

\* C18: a tuple labelled "cancel" is emitted only by a call that found the
\* killswitch set at the head of its loop over the rows.
C18_CancelLabelOnlyWhenCancelled ==
  \A k \in Signals :
    emitted[k].args[4] = "cancel" => cancelled_at # -1

\* C19: a row written with exactlocation True holds at least one result,
\* and no row holds more results than it has non-empty pieces.
C19_ExactHasResults ==
  /\ flag_accurate /\ pc \in InRow => result # << >>
  /\ \A r \in Written :
       /\ exactlocation[r] = "True" =>
            /\ geoID[r].kind = "json"
            /\ Len(geoID[r].results) > 0
       /\ Len(geoID[r].results) <= stats[r].pieces

\* A call that returned a row written with exactlocation True that holds
\* one result for its two pieces.
C19_Witness ==
  /\ pc = "returned"
  /\ \E r \in Written :
       /\ exactlocation[r] = "True"
       /\ stats[r].pieces = 2
       /\ Len(geoID[r].results) = 1

====
